---- MODULE Spec2Model ----
(***************************************************************************)
(* A model of the Telegram tunnel: client.py (local proxy peer) and        *)
(* server.py (egress peer).  Each program is a set of asyncio tasks that   *)
(* run atomically between two awaits; an action of the model is one such   *)
(* atomic block.  Frame texts are sequences of whitespace-separated        *)
(* tokens; payloads are real base64 over byte values 0..255.               *)
(***************************************************************************)
EXTENDS Integers, Sequences, FiniteSets, TLC

\* ------------------------------------------------------------------ bounds

\* Data frames offered to a receiver carry seq 0..MaxSeq-1.
MaxSeq == 3
\* Streams the server may create (uuid4 values it may draw).
MaxStreams == 2
\* Updates returned by one poll in the model (the code asks for limit=10).
MaxBatch == 2
\* Chunks the origin returns on one socket before the model stops reading.
MaxChunks == 1
\* write(), flush() and close() calls made on one client write buffer.
MaxCalls == 3
\* (read pipe, write buffer) pairs handle_ok may allocate.
MaxObjs == 2
\* Data frames the chat hands to one stream of a receiver, replays included.
MaxFrames == 4
\* The update_id values the chat assigns are 0..MaxUpdateId.
MaxUpdateId == 2

\* ------------------------------------------------------- program constants

\* client.py:109, the transport's per-message limit used to size the buffer.
FrameLimit == 4096
\* len(uuid.uuid4().hex): the length of every request_id and stream_id.
IdLen == 32
\* server.py:57, read.read(1024).
ReadSize == 1024
\* client.py:252, reader.read(4096) in forward_data.
CopySize == 4096

\* --------------------------------------------------------------- identifiers

AllStreamIds == <<"s1", "s2", "s3">>
StreamIds == {AllStreamIds[i] : i \in 1..MaxStreams}
\* A stream id no peer ever registered.
UnknownId == "zzz"
Host == "origin"
Port == 80

\* ------------------------------------------------------------------ base64

\* The '=' sign; the 64 data symbols are 0..63.
Pad == 64

B64Len(n) == 4 * ((n + 2) \div 3)

\* base64.b64encode: three bytes to four symbols, the last group padded.
B64Encode(b) ==
  [i \in 1..B64Len(Len(b)) |->
     LET g == (i - 1) \div 4
         k == (i - 1) % 4
         has(j) == 3 * g + j <= Len(b)
         byte(j) == IF has(j) THEN b[3 * g + j] ELSE 0
     IN  CASE k = 0 -> byte(1) \div 4
           [] k = 1 -> (byte(1) % 4) * 16 + (byte(2) \div 16)
           [] k = 2 -> IF has(2) THEN (byte(2) % 16) * 4 + (byte(3) \div 64) ELSE Pad
           [] k = 3 -> IF has(3) THEN byte(3) % 64 ELSE Pad]

\* The number of data symbols before the first '='.
DataSymbols(t) ==
  IF \E i \in 1..Len(t) : t[i] = Pad
  THEN (CHOOSE i \in 1..Len(t) : t[i] = Pad /\ \A j \in 1..(i - 1) : t[j] # Pad) - 1
  ELSE Len(t)

\* base64.b64decode (validate=False): binascii.Error ("Incorrect padding") unless
\* the data symbols fill whole quads or the missing ones are padded.
B64Decode(t) ==
  LET d == DataSymbols(t)
      p == Len(t) - d
      r == d % 4
      ok == r = 0 \/ (r = 2 /\ p >= 2) \/ (r = 3 /\ p >= 1)
      n == 3 * (d \div 4) + (IF r = 0 THEN 0 ELSE r - 1)
      bytes == [j \in 1..n |->
                  LET g == (j - 1) \div 3
                      k == (j - 1) % 3
                      s(m) == t[4 * g + m]
                  IN  CASE k = 0 -> s(1) * 4 + (s(2) \div 16)
                        [] k = 1 -> (s(2) % 16) * 16 + (s(3) \div 4)
                        [] k = 2 -> (s(3) % 4) * 64 + s(4)]
  IN  [ok |-> ok, bytes |-> IF ok THEN bytes ELSE <<>>]

\* ------------------------------------------------------------- frame texts

\* The f-strings of the two programs; a text is its sequence of tokens.
ConnectText(request_id, host, port) == <<"CONNECT", request_id, host, port>>
OkText(request_id, stream_id) == <<"OK", request_id, stream_id>>
SendText(stream_id, seq_num, b64) == <<"SEND", stream_id, seq_num, b64>>
RecvText(stream_id, seq_num, b64) == <<"RECV", stream_id, seq_num, b64>>
CloseText(stream_id) == <<"CLOSE", stream_id>>
\* server.py:65 writes two tokens after the verb.
ClosedText(request_id, stream_id) == <<"CLOSED", request_id, stream_id>>

\* An update whose text t came as channel_post: update.message is None.
ChannelPost(t) == <<"channel_post">> \o t

\* The regular expressions of the handlers (anchored at both ends).
MatchConnect(t) == Len(t) = 4 /\ t[1] = "CONNECT"
MatchOk(t) == Len(t) = 3 /\ t[1] = "OK"
MatchSend(t) == Len(t) = 4 /\ t[1] = "SEND"
MatchRecv(t) == Len(t) = 4 /\ t[1] = "RECV"
MatchClose(t) == Len(t) = 2 /\ t[1] = "CLOSE"
\* client.py:199, ^CLOSED (\w+)$ : one token after the verb.
MatchClosed(t) == Len(t) = 2 /\ t[1] = "CLOSED"

\* Decimal digits of a sequence number.
RECURSIVE Digits(_)
Digits(n) == IF n < 10 THEN 1 ELSE 1 + Digits(n \div 10)

\* len(text) of a frame: tokens joined by single spaces.
TextLen(t) ==
  CASE t[1] \in {"SEND", "RECV"} ->
         4 + 1 + IdLen + 1 + Digits(t[3]) + 1 + Len(t[4])
    [] t[1] = "CONNECT" -> 7 + 1 + IdLen + 1 + Len(Host) + 1 + Digits(t[4])
    [] t[1] = "OK" -> 2 + 1 + IdLen + 1 + IdLen
    [] t[1] = "CLOSE" -> 5 + 1 + IdLen
    [] OTHER -> 6 + (Len(t) - 1) * (1 + IdLen)

\* ------------------------------------------------------------ dictionaries

EmptyDict == [k \in {} |-> <<>>]
Put(d, k, v) == [x \in DOMAIN d \cup {k} |-> IF x = k THEN v ELSE d[x]]
Del(d, k) == [x \in DOMAIN d \ {k} |-> d[x]]

\* {"send_seq": 0, "recv_seq": 0, "recv_buffer": {}}
NewSeqs == [send_seq |-> 0, recv_seq |-> 0, recv_buffer |-> EmptyDict]

RECURSIVE Flatten(_)
\* The bytes of a sequence of chunks, concatenated.
Flatten(chunks) ==
  IF chunks = <<>> THEN <<>> ELSE Head(chunks) \o Flatten(Tail(chunks))

IsPrefix(a, b) == Len(a) <= Len(b) /\ SubSeq(b, 1, Len(a)) = a

\* ------------------------------------------------------------------- state

VARIABLES
  \* server.py
  srv_connects,      \* connects: stream_id -> the socket dialled for it
  srv_stream_seqs,   \* stream_seqs: stream_id -> send_seq, recv_seq, recv_buffer
  sock,              \* every socket dialled: request, chunks written, chunks read
  rd,                \* the reader task of every socket: position, frame in flight
  srv_task,          \* the poll task: position inside the handler it runs
  srv_batch,         \* updates of the last poll not dispatched yet
  srv_out,           \* frames the server posted to the chat, in posting order
  \* client.py
  cli_connects,      \* connects: list of (request_id, stream_id, rb, wb)
  cli_stream_seqs,   \* stream_seqs
  objs,              \* every (rb, wb) pair handle_ok allocated
  cli_open,          \* open_connection calls: request_id -> position
  cli_batch,         \* updates of the last poll not dispatched yet
  cli_out,           \* frames the client posted to the chat, in posting order
  peer,              \* the programs running: "server", "client" or "both"
  last_id,           \* last_id of each program's poll loop
  \* the chat (the environment of the two programs)
  handed,            \* stream_id -> seq numbers of the data frames polled, in order
  delivered          \* texts of the other peer returned by a poll so far

srv_vars == <<srv_connects, srv_stream_seqs, sock, rd, srv_task, srv_batch, srv_out>>
cli_vars == <<cli_connects, cli_stream_seqs, objs, cli_open, cli_batch, cli_out>>
env == <<handed, delivered>>
vars == <<srv_vars, cli_vars, peer, last_id, env>>

\* last_id = None (server.py:30, client.py:216).
None == -1

\* "last_id + 1 if last_id else None": None and 0 are both false.
Offset(l) == IF l # None /\ l # 0 THEN l + 1 ELSE None

\* -------------------------------------------------------------- server.py

\* The poll task sleeping or polling, or between two updates of a batch.
Loop == [pc |-> "loop", sid |-> "", frame |-> <<>>]

\* The poll task is parked at an await: other tasks may run, and what they
\* await may complete (the blocks between two awaits take no time).
SrvSuspended == srv_task.pc # "loop" \/ srv_batch = <<>>

\* The three handlers returned: the for loop takes the next update.
SrvReturn == /\ srv_batch' = Tail(srv_batch)
             /\ srv_task' = Loop

\* SrvRaise with the exception leaving run(): the poll task ends.
SrvRaiseExit == /\ srv_batch' = <<>>
                /\ srv_task' = [pc |-> "exit", sid |-> "", frame |-> <<>>]

\* except Exception: log, sleep 5, poll again; last_id was advanced before the
\* for loop, so the rest of the batch is never dispatched.
SrvRaise == /\ srv_batch' = <<>>
            /\ srv_task' = Loop

\* bot.get_updates returned the non-empty list b, m its greatest update_id.
SrvPoll(b, m) ==
  /\ peer \in {"server", "both"}
  /\ srv_task.pc = "loop" /\ srv_batch = <<>>
  /\ b # <<>>
  /\ last_id' = [last_id EXCEPT !.server = m]
  /\ srv_batch' = b
  /\ UNCHANGED <<srv_connects, srv_stream_seqs, sock, rd, srv_task, srv_out>>
  /\ UNCHANGED <<cli_vars, peer>>

\* bot.get_updates raised: except Exception, sleep 5, poll again; last_id is
\* what it was.
SrvPollFailed ==
  /\ peer \in {"server", "both"}
  /\ srv_task.pc = "loop" /\ srv_batch = <<>>
  /\ UNCHANGED vars

SrvDispatching == srv_task.pc = "loop" /\ srv_batch # <<>>

\* server.py:177-178: "if update.message is None: continue".
SrvSkip ==
  /\ SrvDispatching
  /\ Head(srv_batch)[1] = "channel_post"
  /\ SrvReturn
  /\ UNCHANGED <<srv_connects, srv_stream_seqs, sock, rd, srv_out>>
  /\ UNCHANGED <<cli_vars, peer, last_id, env>>

\* server.py:44: the keys of connects are stream ids.
AlreadyConnected(request_id) == request_id \in DOMAIN srv_connects

\* connect(message) up to its await of send_message(OK ...).
SrvConnect ==
  /\ SrvDispatching
  /\ MatchConnect(Head(srv_batch))
  /\ LET request_id == Head(srv_batch)[2]
     IN  IF AlreadyConnected(request_id)
         THEN /\ SrvReturn
              /\ UNCHANGED <<srv_connects, srv_stream_seqs, sock, rd, srv_out>>
         ELSE \E stream_id \in StreamIds \ DOMAIN sock :
                \/ \* asyncio.open_connection raised
                   /\ SrvRaise
                   /\ UNCHANGED <<srv_connects, srv_stream_seqs, sock, rd, srv_out>>
                \/ /\ srv_connects' = Put(srv_connects, stream_id, stream_id)
                   /\ srv_stream_seqs' = Put(srv_stream_seqs, stream_id, NewSeqs)
                   /\ sock' = Put(sock, stream_id,
                                  [req |-> request_id, written |-> <<>>,
                                   closed |-> FALSE, failed |-> FALSE,
                                   got |-> <<>>])
                   /\ rd' = Put(rd, stream_id, [pc |-> "read", frame |-> <<>>])
                   /\ srv_task' = [pc |-> "ok", sid |-> stream_id,
                                   frame |-> OkText(request_id, stream_id)]
                   /\ UNCHANGED <<srv_batch, srv_out>>
  /\ UNCHANGED <<cli_vars, peer, last_id, env>>

\* send_message(OK ...) completed: the frame is in the chat.
SrvOkPosted ==
  /\ srv_task.pc = "ok"
  /\ srv_out' = Append(srv_out, srv_task.frame)
  /\ SrvReturn
  /\ UNCHANGED <<srv_connects, srv_stream_seqs, sock, rd>>
  /\ UNCHANGED <<cli_vars, peer, last_id, env>>

\* send_message(OK ...) raised.
SrvOkFailed ==
  /\ srv_task.pc = "ok"
  /\ SrvRaise
  /\ UNCHANGED <<srv_connects, srv_stream_seqs, sock, rd, srv_out>>
  /\ UNCHANGED <<cli_vars, peer, last_id, env>>

\* write.write(data) on the socket of stream_id: a transport that lost its
\* connection drops the data.
SockWrite(stream_id, data) ==
  [sock EXCEPT ![stream_id].written = IF sock[stream_id].failed THEN @
                                      ELSE Append(@, data)]

\* RecvBranch with the comparison relaxed: a frame ahead of the expected one
\* is delivered at once.
RecvBranchAhead(seq_num, expected_seq) ==
  IF seq_num >= expected_seq THEN "deliver" ELSE "buffer"

\* The receiver's branch on a data frame (server.py:105-134, client.py:169-192):
\* "deliver" when it is the expected one, "buffer" otherwise.
RecvBranch(seq_num, expected_seq) ==
  IF seq_num = expected_seq THEN "deliver" ELSE "buffer"

\* SrvDropFrame of a server that answers a frame for a stream it does not
\* know.
SrvDropFrameReply ==
  /\ SrvReturn
  /\ srv_out' = Append(srv_out, <<"CLOSED", Head(srv_batch)[2]>>)
  /\ UNCHANGED <<srv_connects, srv_stream_seqs, sock, rd>>

\* server.py:97-103: no connection or no sequence tracking for the stream:
\* log a warning and return.
SrvDropFrame ==
  /\ SrvReturn
  /\ UNCHANGED <<srv_connects, srv_stream_seqs, sock, rd, srv_out>>

\* send(message) up to its first await of write.drain().
SrvSend ==
  /\ SrvDispatching
  /\ MatchSend(Head(srv_batch))
  /\ LET stream_id == Head(srv_batch)[2]
         seq_num == Head(srv_batch)[3]
         data == B64Decode(Head(srv_batch)[4])
     IN  IF ~data.ok
         THEN \* binascii.Error leaves the handler
              /\ SrvRaise
              /\ UNCHANGED <<srv_connects, srv_stream_seqs, sock, rd, srv_out>>
         ELSE IF stream_id \notin DOMAIN srv_connects
                 \/ stream_id \notin DOMAIN srv_stream_seqs
         THEN SrvDropFrame
         ELSE IF RecvBranch(seq_num, srv_stream_seqs[stream_id].recv_seq) = "deliver"
         THEN /\ sock' = SockWrite(stream_id, data.bytes)
              /\ srv_task' = [pc |-> "drain", sid |-> stream_id, frame |-> <<>>]
              /\ UNCHANGED <<srv_connects, srv_stream_seqs, rd, srv_batch, srv_out>>
         ELSE /\ srv_stream_seqs' =
                   [srv_stream_seqs EXCEPT ![stream_id].recv_buffer =
                      Put(@, seq_num, data.bytes)]
              /\ SrvReturn
              /\ UNCHANGED <<srv_connects, sock, rd, srv_out>>
  /\ UNCHANGED <<cli_vars, peer, last_id, env>>

\* write.drain() returned: recv_seq += 1, then the next buffered frame, if any,
\* is popped and written (the while loop of server.py:119-128, one turn).
SrvDrained ==
  /\ srv_task.pc = "drain"
  /\ ~sock[srv_task.sid].failed
  /\ LET stream_id == srv_task.sid
     IN  IF stream_id \notin DOMAIN srv_stream_seqs
         THEN \* KeyError: the reader removed the stream during the await
              /\ SrvRaise
              /\ UNCHANGED <<srv_connects, srv_stream_seqs, sock, rd, srv_out>>
         ELSE LET next_seq == srv_stream_seqs[stream_id].recv_seq + 1
                  recv_buffer == srv_stream_seqs[stream_id].recv_buffer
              IN  IF next_seq \in DOMAIN recv_buffer
                  THEN /\ srv_stream_seqs' =
                            [srv_stream_seqs EXCEPT
                               ![stream_id].recv_seq = next_seq,
                               ![stream_id].recv_buffer = Del(@, next_seq)]
                       /\ sock' = SockWrite(stream_id, recv_buffer[next_seq])
                       /\ UNCHANGED <<srv_connects, rd, srv_task, srv_batch, srv_out>>
                  ELSE /\ srv_stream_seqs' =
                            [srv_stream_seqs EXCEPT ![stream_id].recv_seq = next_seq]
                       /\ SrvReturn
                       /\ UNCHANGED <<srv_connects, sock, rd, srv_out>>
  /\ UNCHANGED <<cli_vars, peer, last_id, env>>

\* write.drain() raised: the connection was reset, and stays so.
SrvDrainFailed ==
  /\ srv_task.pc = "drain"
  /\ sock' = [sock EXCEPT ![srv_task.sid].failed = TRUE]
  /\ SrvRaise
  /\ UNCHANGED <<srv_connects, srv_stream_seqs, rd, srv_out>>
  /\ UNCHANGED <<cli_vars, peer, last_id, env>>

\* close(message): no await inside.
SrvClose ==
  /\ SrvDispatching
  /\ MatchClose(Head(srv_batch))
  /\ LET stream_id == Head(srv_batch)[2]
     IN  IF stream_id \notin DOMAIN srv_connects
         THEN UNCHANGED <<srv_connects, srv_stream_seqs, sock>>
         ELSE /\ sock' = [sock EXCEPT ![stream_id].closed = TRUE]
              /\ srv_connects' = Del(srv_connects, stream_id)
              /\ srv_stream_seqs' = Del(srv_stream_seqs, stream_id)
  /\ SrvReturn
  /\ UNCHANGED <<rd, srv_out>>
  /\ UNCHANGED <<cli_vars, peer, last_id, env>>

\* reader(): read.read(1024) returned a chunk; the RECV frame is built and
\* send_message is awaited.
RdData(stream_id, data) ==
  /\ SrvSuspended
  /\ stream_id \in DOMAIN rd /\ rd[stream_id].pc = "read"
  /\ Len(sock[stream_id].got) < MaxChunks
  /\ Len(data) \in 1..ReadSize
  /\ sock' = [sock EXCEPT ![stream_id].got = Append(@, data)]
  /\ IF stream_id \notin DOMAIN srv_stream_seqs
     THEN \* KeyError at server.py:71: the task ends with the exception
          /\ rd' = [rd EXCEPT ![stream_id] = [pc |-> "failed", frame |-> <<>>]]
          /\ UNCHANGED srv_stream_seqs
     ELSE /\ rd' = [rd EXCEPT ![stream_id] =
                      [pc |-> "send",
                       frame |-> RecvText(stream_id,
                                          srv_stream_seqs[stream_id].send_seq,
                                          B64Encode(data))]]
          /\ srv_stream_seqs' =
               [srv_stream_seqs EXCEPT ![stream_id].send_seq = @ + 1]
  /\ UNCHANGED <<srv_connects, srv_task, srv_batch, srv_out>>
  /\ UNCHANGED <<cli_vars, peer, last_id, env>>

\* reader(): read.read(1024) returned b"".
RdEof(stream_id) ==
  /\ SrvSuspended
  /\ stream_id \in DOMAIN rd /\ rd[stream_id].pc = "read"
  /\ IF stream_id \notin DOMAIN srv_connects
     THEN \* KeyError at server.py:60
          /\ rd' = [rd EXCEPT ![stream_id] = [pc |-> "failed", frame |-> <<>>]]
          /\ UNCHANGED <<srv_connects, srv_stream_seqs>>
     ELSE /\ srv_connects' = Del(srv_connects, stream_id)
          /\ srv_stream_seqs' = Del(srv_stream_seqs, stream_id)
          /\ rd' = [rd EXCEPT ![stream_id] =
                      [pc |-> "send_closed",
                       frame |-> ClosedText(sock[stream_id].req, stream_id)]]
  /\ UNCHANGED <<sock, srv_task, srv_batch, srv_out>>
  /\ UNCHANGED <<cli_vars, peer, last_id, env>>

\* The reader's send_message completed: the frame is in the chat.
RdPosted(stream_id) ==
  /\ SrvSuspended
  /\ stream_id \in DOMAIN rd /\ rd[stream_id].pc \in {"send", "send_closed"}
  /\ srv_out' = Append(srv_out, rd[stream_id].frame)
  /\ rd' = [rd EXCEPT ![stream_id] =
              [pc |-> IF @.pc = "send" THEN "read" ELSE "done", frame |-> <<>>]]
  /\ UNCHANGED <<srv_connects, srv_stream_seqs, sock, srv_task, srv_batch>>
  /\ UNCHANGED <<cli_vars, peer, last_id, env>>

\* The reader's send_message raised: the task ends with the exception.
RdPostFailed(stream_id) ==
  /\ SrvSuspended
  /\ stream_id \in DOMAIN rd /\ rd[stream_id].pc \in {"send", "send_closed"}
  /\ rd' = [rd EXCEPT ![stream_id] = [pc |-> "failed", frame |-> <<>>]]
  /\ UNCHANGED <<srv_connects, srv_stream_seqs, sock, srv_task, srv_batch, srv_out>>
  /\ UNCHANGED <<cli_vars, peer, last_id, env>>

\* -------------------------------------------------------------- client.py

\* The poll task is parked at sleep or get_updates: other tasks may run.
CliSuspended == cli_batch = <<>>

\* except Exception in run_bot: the rest of the batch is never dispatched.
CliRaise == cli_batch' = <<>>
CliReturn == cli_batch' = Tail(cli_batch)

\* bot.get_updates returned the non-empty list b, m its greatest update_id.
CliPoll(b, m) ==
  /\ peer \in {"client", "both"}
  /\ cli_batch = <<>>
  /\ b # <<>>
  /\ last_id' = [last_id EXCEPT !.client = m]
  /\ cli_batch' = b
  /\ UNCHANGED <<cli_connects, cli_stream_seqs, objs, cli_open, cli_out>>
  /\ UNCHANGED <<srv_vars, peer>>

\* bot.get_updates raised: except Exception, sleep 5, poll again.
CliPollFailed ==
  /\ peer \in {"client", "both"}
  /\ cli_batch = <<>>
  /\ UNCHANGED vars

\* any(request_id == connect[0] for connect in connects)
HasRequest(request_id) ==
  \E i \in 1..Len(cli_connects) : cli_connects[i].req = request_id
\* any(connect[1] == stream_id for connect in connects)
HasStream(stream_id) ==
  \E i \in 1..Len(cli_connects) : cli_connects[i].sid = stream_id
\* next(connect for connect in connects if ...): the first entry of the list
\* among those at the indices I.
FirstWith(I) == cli_connects[CHOOSE i \in I : \A j \in I : i <= j]
\* The indices of the entries for stream_id, for request_id.
WithStream(stream_id) ==
  {i \in 1..Len(cli_connects) : cli_connects[i].sid = stream_id}
WithRequest(request_id) ==
  {i \in 1..Len(cli_connects) : cli_connects[i].req = request_id}

\* 4096 - len(f"SEND {stream_id} 9999 ")
BufferSize == FrameLimit - (4 + 1 + IdLen + 1 + 4 + 1)

\* AsyncBytesIO() and AsyncWriteBuffer() as constructed by handle_ok.  Of the
\* pipe: queue is _queue, rbuf is _buffer, closed is _closed, out is every byte
\* read() returned so far, reads the number of read() calls.  Of the write
\* buffer: wrote is every byte passed to write() so far, fin whether close()
\* was called.
NewObj(stream_id) ==
  [sid |-> stream_id, queue |-> <<>>, closed |-> FALSE,
   rbuf |-> <<>>, out |-> <<>>, reads |-> 0,
   buffer |-> <<>>, pc |-> "idle", then |-> "ret", frame |-> <<>>, calls |-> 0,
   wrote |-> <<>>, fin |-> FALSE]

\* handle_ok without the test of client.py:100-102.
CliHandleOkAgain ==
  /\ cli_batch # <<>>
  /\ MatchOk(Head(cli_batch))
  /\ LET request_id == Head(cli_batch)[2]
         stream_id == Head(cli_batch)[3]
     IN  /\ Len(objs) < MaxObjs
         /\ objs' = Append(objs, NewObj(stream_id))
         /\ cli_connects' = Append(cli_connects,
                                   [req |-> request_id, sid |-> stream_id,
                                    o |-> Len(objs) + 1])
         /\ cli_stream_seqs' = Put(cli_stream_seqs, stream_id, NewSeqs)
  /\ CliReturn
  /\ UNCHANGED <<cli_open, cli_out>>
  /\ UNCHANGED <<srv_vars, peer, last_id, env>>

\* handle_ok(message)
CliHandleOk ==
  /\ cli_batch # <<>>
  /\ MatchOk(Head(cli_batch))
  /\ LET request_id == Head(cli_batch)[2]
         stream_id == Head(cli_batch)[3]
     IN  IF HasRequest(request_id)
         THEN UNCHANGED <<cli_connects, cli_stream_seqs, objs>>
         ELSE /\ Len(objs) < MaxObjs
              /\ objs' = Append(objs, NewObj(stream_id))
              /\ cli_connects' = Append(cli_connects,
                                        [req |-> request_id, sid |-> stream_id,
                                         o |-> Len(objs) + 1])
              /\ cli_stream_seqs' = Put(cli_stream_seqs, stream_id, NewSeqs)
  /\ CliReturn
  /\ UNCHANGED <<cli_open, cli_out>>
  /\ UNCHANGED <<srv_vars, peer, last_id, env>>

RECURSIVE Deliver(_, _)
\* The while loop of client.py:179-186 on [seqs, queue]: buffered frames that
\* follow recv_seq are popped and written to the pipe.
Deliver(seqs, queue) ==
  IF seqs.recv_seq \in DOMAIN seqs.recv_buffer
  THEN Deliver([seqs EXCEPT !.recv_seq = @ + 1,
                            !.recv_buffer = Del(@, seqs.recv_seq)],
               Append(queue, seqs.recv_buffer[seqs.recv_seq]))
  ELSE [seqs |-> seqs, queue |-> queue]

\* handle_recv(message): rb.write never suspends (the queue is unbounded).
CliHandleRecv ==
  /\ cli_batch # <<>>
  /\ MatchRecv(Head(cli_batch))
  /\ LET stream_id == Head(cli_batch)[2]
         seq_num == Head(cli_batch)[3]
         data == B64Decode(Head(cli_batch)[4])
     IN  IF ~data.ok
         THEN /\ CliRaise
              /\ UNCHANGED <<cli_stream_seqs, objs>>
         ELSE IF ~HasStream(stream_id) \/ stream_id \notin DOMAIN cli_stream_seqs
         THEN /\ CliReturn
              /\ UNCHANGED <<cli_stream_seqs, objs>>
         ELSE LET rb == FirstWith(WithStream(stream_id)).o
                  seqs == cli_stream_seqs[stream_id]
              IN  IF RecvBranch(seq_num, seqs.recv_seq) = "deliver"
                  THEN IF objs[rb].closed
                       THEN \* ValueError from rb.write
                            /\ CliRaise
                            /\ UNCHANGED <<cli_stream_seqs, objs>>
                       ELSE LET r == Deliver([seqs EXCEPT !.recv_seq = @ + 1],
                                             Append(objs[rb].queue, data.bytes))
                            IN  /\ cli_stream_seqs' =
                                     [cli_stream_seqs EXCEPT ![stream_id] = r.seqs]
                                /\ objs' = [objs EXCEPT ![rb].queue = r.queue]
                                /\ CliReturn
                  ELSE /\ cli_stream_seqs' =
                            [cli_stream_seqs EXCEPT ![stream_id].recv_buffer =
                               Put(@, seq_num, data.bytes)]
                       /\ CliReturn
                       /\ UNCHANGED objs
  /\ UNCHANGED <<cli_connects, cli_open, cli_out>>
  /\ UNCHANGED <<srv_vars, peer, last_id, env>>

\* [connect for connect in connects if connect[0] != request_id]
RECURSIVE Without(_, _)
Without(list, request_id) ==
  IF list = <<>> THEN <<>>
  ELSE IF Head(list).req = request_id THEN Without(Tail(list), request_id)
  ELSE <<Head(list)>> \o Without(Tail(list), request_id)

\* handle_close(message)
CliHandleClose ==
  /\ cli_batch # <<>>
  /\ MatchClosed(Head(cli_batch))
  /\ LET request_id == Head(cli_batch)[2]
         closed_streams == {cli_connects[i].sid : i \in
                              {j \in 1..Len(cli_connects) :
                                 cli_connects[j].req = request_id}}
     IN  /\ cli_stream_seqs' =
              [x \in DOMAIN cli_stream_seqs \ closed_streams |-> cli_stream_seqs[x]]
         /\ cli_connects' = Without(cli_connects, request_id)
  /\ CliReturn
  /\ UNCHANGED <<objs, cli_open, cli_out>>
  /\ UNCHANGED <<srv_vars, peer, last_id, env>>

\* A text none of the three regular expressions matches: each handler returns.
CliNoMatch ==
  /\ cli_batch # <<>>
  /\ ~MatchOk(Head(cli_batch))
  /\ ~MatchRecv(Head(cli_batch))
  /\ ~MatchClosed(Head(cli_batch))
  /\ CliReturn
  /\ UNCHANGED <<cli_connects, cli_stream_seqs, objs, cli_open, cli_out>>
  /\ UNCHANGED <<srv_vars, peer, last_id, env>>

\* open_connection(host, port) up to its await of send_message(CONNECT ...).
CliOpen(request_id) ==
  /\ peer \in {"client", "both"}
  /\ CliSuspended
  /\ request_id \notin DOMAIN cli_open
  /\ cli_open' = Put(cli_open, request_id, [pc |-> "send", o |-> 0, spins |-> 0])
  /\ UNCHANGED <<cli_connects, cli_stream_seqs, objs, cli_batch, cli_out>>
  /\ UNCHANGED <<srv_vars, peer, last_id, env>>

\* send_message(CONNECT ...) completed; the while loop of client.py:77 starts.
CliOpenPosted(request_id) ==
  /\ CliSuspended
  /\ request_id \in DOMAIN cli_open /\ cli_open[request_id].pc = "send"
  /\ cli_out' = Append(cli_out, ConnectText(request_id, Host, Port))
  /\ cli_open' = [cli_open EXCEPT ![request_id].pc = "wait"]
  /\ UNCHANGED <<cli_connects, cli_stream_seqs, objs, cli_batch>>
  /\ UNCHANGED <<srv_vars, peer, last_id, env>>

\* send_message(CONNECT ...) raised: open_connection raises.
CliOpenFailed(request_id) ==
  /\ CliSuspended
  /\ request_id \in DOMAIN cli_open /\ cli_open[request_id].pc = "send"
  /\ cli_open' = [cli_open EXCEPT ![request_id].pc = "failed"]
  /\ UNCHANGED <<cli_connects, cli_stream_seqs, objs, cli_batch, cli_out>>
  /\ UNCHANGED <<srv_vars, peer, last_id, env>>

\* One turn of the while loop of client.py:77-78: no entry for request_id,
\* sleep again; spins counts the turns.
CliOpenSleep(request_id) ==
  /\ CliSuspended
  /\ request_id \in DOMAIN cli_open /\ cli_open[request_id].pc = "wait"
  /\ ~HasRequest(request_id)
  /\ cli_open[request_id].spins < MaxCalls
  /\ cli_open' = [cli_open EXCEPT ![request_id].spins = @ + 1]
  /\ UNCHANGED <<cli_connects, cli_stream_seqs, objs, cli_batch, cli_out>>
  /\ UNCHANGED <<srv_vars, peer, last_id, env>>

\* The while loop of client.py:77 ends: (rb, wb) of the first entry is returned.
CliOpenReturn(request_id) ==
  /\ CliSuspended
  /\ request_id \in DOMAIN cli_open /\ cli_open[request_id].pc = "wait"
  /\ HasRequest(request_id)
  /\ cli_open' = [cli_open EXCEPT ![request_id].pc = "open",
                                  ![request_id].o =
                                     FirstWith(WithRequest(request_id)).o]
  /\ UNCHANGED <<cli_connects, cli_stream_seqs, objs, cli_batch, cli_out>>
  /\ UNCHANGED <<srv_vars, peer, last_id, env>>

\* The write buffer o was returned by an open_connection and no call on it is
\* in progress: its holder may call write, flush or close.
Callable(o) ==
  /\ CliSuspended
  /\ o \in 1..Len(objs)
  /\ \E r \in DOMAIN cli_open : cli_open[r].pc = "open" /\ cli_open[r].o = o
  /\ objs[o].pc = "idle"
  /\ objs[o].calls < MaxCalls

\* flush() entered with buffer b on object o; then is "close" when close()
\* called it.  The frame text is built before send_message is awaited.
FlushBegin(o, b, then) ==
  LET stream_id == objs[o].sid
      fin == objs[o].fin \/ then = "close"
      wrote == objs[o].wrote \o SubSeq(b, Len(objs[o].buffer) + 1, Len(b))
  IN  IF b # <<>>
      THEN IF stream_id \notin DOMAIN cli_stream_seqs
           THEN \* KeyError at client.py:120: the call raises
                /\ objs' = [objs EXCEPT ![o].buffer = b, ![o].calls = @ + 1,
                                        ![o].fin = fin, ![o].wrote = wrote]
                /\ UNCHANGED cli_stream_seqs
           ELSE /\ objs' = [objs EXCEPT
                              ![o].buffer = b, ![o].calls = @ + 1,
                              ![o].fin = fin, ![o].wrote = wrote,
                              ![o].pc = "flush", ![o].then = then,
                              ![o].frame =
                                 SendText(stream_id,
                                          cli_stream_seqs[stream_id].send_seq,
                                          B64Encode(b))]
                /\ cli_stream_seqs' =
                     [cli_stream_seqs EXCEPT ![stream_id].send_seq = @ + 1]
      ELSE /\ objs' = [objs EXCEPT
                         ![o].calls = @ + 1, ![o].fin = fin,
                         ![o].pc = IF then = "close" THEN "close" ELSE "idle",
                         ![o].frame = IF then = "close" THEN CloseText(stream_id)
                                      ELSE <<>>]
           /\ UNCHANGED cli_stream_seqs

\* AsyncWriteBuffer.write(data)
WbWrite(o, data) ==
  /\ Callable(o)
  /\ data # <<>>
  /\ LET b == objs[o].buffer \o data
     IN  IF Len(b) >= BufferSize
         THEN FlushBegin(o, b, "ret")
         ELSE /\ objs' = [objs EXCEPT ![o].buffer = b, ![o].calls = @ + 1,
                                      ![o].wrote = @ \o data]
              /\ UNCHANGED cli_stream_seqs
  /\ UNCHANGED <<cli_connects, cli_open, cli_batch, cli_out>>
  /\ UNCHANGED <<srv_vars, peer, last_id, env>>

\* AsyncWriteBuffer.flush()
WbFlush(o) ==
  /\ Callable(o)
  /\ FlushBegin(o, objs[o].buffer, "ret")
  /\ UNCHANGED <<cli_connects, cli_open, cli_batch, cli_out>>
  /\ UNCHANGED <<srv_vars, peer, last_id, env>>

\* AsyncWriteBuffer.close()
WbClose(o) ==
  /\ Callable(o)
  /\ FlushBegin(o, objs[o].buffer, "close")
  /\ UNCHANGED <<cli_connects, cli_open, cli_batch, cli_out>>
  /\ UNCHANGED <<srv_vars, peer, last_id, env>>

\* close() that leaves the stream's counters in place after its CLOSE frame.
WbPostedKeep(o) ==
  /\ CliSuspended
  /\ o \in 1..Len(objs)
  /\ objs[o].pc \in {"flush", "close"}
  /\ cli_out' = Append(cli_out, objs[o].frame)
  /\ objs' = [objs EXCEPT
                ![o].buffer = IF objs[o].pc = "flush" THEN <<>> ELSE @,
                ![o].pc = IF @ = "flush" /\ objs[o].then = "close"
                          THEN "close" ELSE "idle",
                ![o].then = "ret",
                ![o].frame = IF objs[o].pc = "flush" /\ objs[o].then = "close"
                             THEN CloseText(objs[o].sid) ELSE <<>>]
  /\ UNCHANGED <<cli_connects, cli_stream_seqs, cli_open, cli_batch>>
  /\ UNCHANGED <<srv_vars, peer, last_id, env>>

\* The send_message awaited by flush() or close() completed.
WbPosted(o) ==
  /\ CliSuspended
  /\ o \in 1..Len(objs)
  /\ objs[o].pc \in {"flush", "close"}
  /\ cli_out' = Append(cli_out, objs[o].frame)
  /\ IF objs[o].pc = "flush"
     THEN /\ objs' = [objs EXCEPT
                        ![o].buffer = <<>>,
                        ![o].pc = IF @ = "flush" /\ objs[o].then = "close"
                                  THEN "close" ELSE "idle",
                        ![o].then = "ret",
                        ![o].frame = IF objs[o].then = "close"
                                     THEN CloseText(objs[o].sid) ELSE <<>>]
          /\ UNCHANGED cli_stream_seqs
     ELSE /\ objs' = [objs EXCEPT ![o].pc = "idle", ![o].frame = <<>>]
          /\ cli_stream_seqs' = Del(cli_stream_seqs, objs[o].sid)
  /\ UNCHANGED <<cli_connects, cli_open, cli_batch>>
  /\ UNCHANGED <<srv_vars, peer, last_id, env>>

\* The send_message awaited by flush() or close() raised: so does the call.
WbPostFailed(o) ==
  /\ CliSuspended
  /\ o \in 1..Len(objs)
  /\ objs[o].pc \in {"flush", "close"}
  /\ objs' = [objs EXCEPT ![o].pc = "idle", ![o].then = "ret", ![o].frame = <<>>]
  /\ UNCHANGED <<cli_connects, cli_stream_seqs, cli_open, cli_batch, cli_out>>
  /\ UNCHANGED <<srv_vars, peer, last_id, env>>

\* The pipe o was returned by an open_connection: its holder may read and
\* close it.
Held(o) ==
  /\ CliSuspended
  /\ o \in 1..Len(objs)
  /\ \E r \in DOMAIN cli_open : cli_open[r].pc = "open" /\ cli_open[r].o = o
  /\ objs[o].reads < MaxCalls

\* read(size) with size = -1 for "everything".
Everything == -1

RECURSIVE Fill(_, _, _)
\* The while loop of AsyncBytesIO.read: chunks are taken from the queue while
\* the buffer is shorter than size; on an empty queue wait_for times out.
Fill(buf, queue, size) ==
  IF (Len(buf) < size \/ size = Everything) /\ queue # <<>>
  THEN Fill(buf \o Head(queue), Tail(queue), size)
  ELSE [buf |-> buf, queue |-> queue]

\* AsyncBytesIO.read(size)
RbRead(o, size) ==
  /\ Held(o)
  /\ IF objs[o].closed
     THEN \* return b""
          objs' = [objs EXCEPT ![o].reads = @ + 1]
     ELSE LET r == Fill(objs[o].rbuf, objs[o].queue, size)
              n == IF size = Everything \/ size > Len(r.buf) THEN Len(r.buf) ELSE size
          IN  objs' = [objs EXCEPT ![o].queue = r.queue,
                                   ![o].rbuf = SubSeq(r.buf, n + 1, Len(r.buf)),
                                   ![o].out = @ \o SubSeq(r.buf, 1, n),
                                   ![o].reads = @ + 1]
  /\ UNCHANGED <<cli_connects, cli_stream_seqs, cli_open, cli_batch, cli_out>>
  /\ UNCHANGED <<srv_vars, peer, last_id, env>>

\* AsyncBytesIO.close()
RbClose(o) ==
  /\ Held(o)
  /\ ~objs[o].closed
  /\ objs' = [objs EXCEPT ![o].closed = TRUE]
  /\ UNCHANGED <<cli_connects, cli_stream_seqs, cli_open, cli_batch, cli_out>>
  /\ UNCHANGED <<srv_vars, peer, last_id, env>>

\* --------------------------------------------------------------- the chat

\* The update_id the chat gives the last update of a batch where the ids play
\* no part (no handler reads last_id).
SomeId == MaxUpdateId

Range(f) == {f[x] : x \in DOMAIN f}
Handed(stream_id) == IF stream_id \in DOMAIN handed THEN handed[stream_id] ELSE <<>>

\* The payload of the data frame numbered q of a stream: one to three bytes.
DataOf(q) == [i \in 1..((q % 3) + 1) |-> 65 + q + i]
\* A payload mangled in the chat: its last symbol is lost.
Mangled == SubSeq(B64Encode(DataOf(0)), 1, 3)

Start(p) ==
  /\ srv_connects = EmptyDict /\ srv_stream_seqs = EmptyDict
  /\ sock = EmptyDict /\ rd = EmptyDict
  /\ srv_task = Loop /\ srv_batch = <<>> /\ srv_out = <<>>
  /\ cli_connects = <<>> /\ cli_stream_seqs = EmptyDict
  /\ objs = <<>> /\ cli_open = EmptyDict
  /\ cli_batch = <<>> /\ cli_out = <<>>
  /\ peer = p
  /\ last_id = [server |-> None, client |-> None]
  /\ handed = EmptyDict /\ delivered = {}

\* The chat hands the data frame q of stream_id to a poll.
Hand(stream_id, q) ==
  /\ Len(Handed(stream_id)) < MaxFrames
  /\ handed' = Put(handed, stream_id, Append(Handed(stream_id), q))
  /\ UNCHANGED delivered

\* ------------------------------------------------ reordering and replays

\* Either program alone; the chat registers one stream, then hands it data
\* frames numbered 0..MaxSeq-1 in any order, any of them again.
InitReorder == \E p \in {"server", "client"} : Start(p)

ReorderSrvPoll ==
  \/ /\ DOMAIN sock = {}
     /\ SrvPoll(<<ConnectText("r1", Host, Port)>>, SomeId)
     /\ UNCHANGED env
  \/ \E stream_id \in DOMAIN srv_connects, q \in 0..(MaxSeq - 1) :
       /\ SrvPoll(<<SendText(stream_id, q, B64Encode(DataOf(q)))>>, SomeId)
       /\ Hand(stream_id, q)

ReorderCliPoll ==
  \/ /\ cli_connects = <<>>
     /\ CliPoll(<<OkText("r1", "s1")>>, SomeId)
     /\ UNCHANGED env
  \/ \E stream_id \in DOMAIN cli_stream_seqs, q \in 0..(MaxSeq - 1) :
       /\ HasStream(stream_id)
       /\ CliPoll(<<RecvText(stream_id, q, B64Encode(DataOf(q)))>>, SomeId)
       /\ Hand(stream_id, q)

NextReorder ==
  \/ ReorderSrvPoll
  \/ SrvConnect
  \/ SrvOkPosted
  \/ SrvOkFailed
  \/ SrvSend
  \/ SrvDrained
  \/ SrvDrainFailed
  \/ \E stream_id \in StreamIds : RdEof(stream_id)
  \/ \E stream_id \in StreamIds : RdPosted(stream_id)
  \/ \E stream_id \in StreamIds : RdPostFailed(stream_id)
  \/ ReorderCliPoll
  \/ CliHandleOk
  \/ CliHandleRecv

SpecReorder == InitReorder /\ [][NextReorder]_vars

\* The payloads 0..n-1 in ascending order.
Expected(n) == [i \in 1..n |-> DataOf(i - 1)]
NoRepeat(q) == \A i, j \in 1..Len(q) : i # j => q[i] # q[j]
\* The least sequence number not in S.
FirstMissing(S) ==
  CHOOSE q \in 0..MaxFrames : q \notin S /\ \A j \in 0..(q - 1) : j \in S

\* C1 (reorder correctness): on either receiver, for a registered stream whose
\* data frames were each handed over at most once, in any order, the payloads
\* delivered to the sink (server socket, client read pipe) are the payloads
\* 0, 1, 2, ... in ascending order, each once, with no gap; and once the
\* handler has returned, every payload up to the first frame still missing has
\* been delivered (all of them when all frames were handed over).  The server
\* socket is one whose connection was not reset.
C1_ReorderCorrect ==
  /\ \A s \in DOMAIN sock :
       (NoRepeat(Handed(s)) /\ ~sock[s].failed) =>
         /\ sock[s].written = Expected(Len(sock[s].written))
         /\ (s \in DOMAIN srv_connects /\ srv_task.pc = "loop" /\ srv_batch = <<>>)
              => Len(sock[s].written) = FirstMissing(Range(Handed(s)))
  /\ \A i \in 1..Len(cli_connects) :
       LET c == cli_connects[i]
       IN  NoRepeat(Handed(c.sid)) =>
             /\ objs[c.o].queue = Expected(Len(objs[c.o].queue))
             /\ (c.sid \in DOMAIN cli_stream_seqs /\ cli_batch = <<>>)
                  => Len(objs[c.o].queue) = FirstMissing(Range(Handed(c.sid)))

\* Scenario S3: the client handled the frames in the order 1, 0, 2 and its read
\* pipe holds the three payloads in ascending order.
C1_Witness ==
  \E i \in 1..Len(cli_connects) :
    /\ Handed(cli_connects[i].sid) = <<1, 0, 2>>
    /\ cli_batch = <<>>
    /\ objs[cli_connects[i].o].queue = <<DataOf(0), DataOf(1), DataOf(2)>>

\* The poll task is about to run the data handler on a frame of a registered
\* stream whose seq is below recv_seq.
SrvReplayAtHand ==
  /\ SrvDispatching
  /\ MatchSend(Head(srv_batch))
  /\ B64Decode(Head(srv_batch)[4]).ok
  /\ Head(srv_batch)[2] \in DOMAIN srv_connects
  /\ Head(srv_batch)[2] \in DOMAIN srv_stream_seqs
  /\ Head(srv_batch)[3] < srv_stream_seqs[Head(srv_batch)[2]].recv_seq
CliReplayAtHand ==
  /\ cli_batch # <<>>
  /\ MatchRecv(Head(cli_batch))
  /\ B64Decode(Head(cli_batch)[4]).ok
  /\ HasStream(Head(cli_batch)[2])
  /\ Head(cli_batch)[2] \in DOMAIN cli_stream_seqs
  /\ Head(cli_batch)[3] < cli_stream_seqs[Head(cli_batch)[2]].recv_seq

\* C2 (replay idempotence): handling a data frame whose seq is below the
\* stream's recv_seq leaves recv_seq and the reorder buffer unchanged and writes
\* nothing to the sink.
C2_ReplayIdempotent ==
  [][/\ SrvReplayAtHand => (srv_stream_seqs' = srv_stream_seqs /\ sock' = sock)
     /\ CliReplayAtHand => (cli_stream_seqs' = cli_stream_seqs /\ objs' = objs)]_vars

\* ------------------------------------------------------- the server alone

\* Chunks the origin may return to one read.
OriginData == {DataOf(1)}

\* Every sequence over U of 1..n elements.
Batches(U, n) == UNION {[1..k -> U] : k \in 1..n}

Count(b, verb) == Cardinality({i \in 1..Len(b) : b[i][1] = verb})

\* What the chat may hold for the server: CONNECT for request r1 (any number
\* of times), and for every stream dialled so far its first data frame, the
\* same frame mangled, CLOSE, and CLOSE as a channel post.  The origins send
\* nothing; they may close.
ServerTexts ==
  {ConnectText("r1", Host, Port)}
  \cup {SendText(s, 0, B64Encode(DataOf(0))) : s \in DOMAIN sock}
  \cup {SendText(s, 0, Mangled) : s \in DOMAIN sock}
  \cup {CloseText(s) : s \in DOMAIN sock}
  \cup {ChannelPost(CloseText(s)) : s \in DOMAIN sock}

ServerPoll ==
  \E b \in Batches(ServerTexts, MaxBatch) :
    /\ Cardinality(DOMAIN sock) + Count(b, "CONNECT") <= MaxStreams
    /\ SrvPoll(b, SomeId)
    /\ UNCHANGED env

InitServer == Start("server")

NextServer ==
  \/ ServerPoll
  \/ SrvSkip
  \/ SrvConnect
  \/ SrvOkPosted
  \/ SrvOkFailed
  \/ SrvSend
  \/ SrvDrained
  \/ SrvDrainFailed
  \/ SrvClose
  \/ \E stream_id \in StreamIds : RdEof(stream_id)
  \/ \E stream_id \in StreamIds : RdPosted(stream_id)
  \/ \E stream_id \in StreamIds : RdPostFailed(stream_id)

SpecServer == InitServer /\ [][NextServer]_vars

\* The stream a SEND or CLOSE text names ("" for the other texts).
StreamOf(t) == IF t[1] \in {"SEND", "RECV", "CLOSE"} THEN t[2] ELSE ""

\* An update for the stream B waits in the batch behind an update for
\* another stream.
WaitsBehind(batch, B) ==
  /\ batch # <<>>
  /\ StreamOf(Head(batch)) \notin {"", B}
  /\ \E i \in 2..Len(batch) : StreamOf(batch[i]) = B

\* C7 (stream isolation): whatever the handling of an update for a stream A
\* does (malformed payload, socket error, A torn down), every update for
\* another stream B that the same poll returned after it is still dispatched:
\* the batch only ever loses its head.
C7_StreamIsolation ==
  [][\A B \in StreamIds :
       /\ WaitsBehind(srv_batch, B)
            => (srv_batch' = srv_batch \/ srv_batch' = Tail(srv_batch))
       /\ WaitsBehind(cli_batch, B)
            => (cli_batch' = cli_batch \/ cli_batch' = Tail(cli_batch))]_vars

\* The request_id of the CONNECT at hand already has a live stream.
ConnectReplayAtHand ==
  /\ SrvDispatching
  /\ MatchConnect(Head(srv_batch))
  /\ \E s \in DOMAIN srv_connects : sock[s].req = Head(srv_batch)[2]

\* C8 (CONNECT replay): handling a CONNECT whose request_id already has a live
\* stream dials nothing, creates no stream, emits no frame and leaves the
\* registry unchanged.
C8_ConnectReplayIgnored ==
  [][ConnectReplayAtHand =>
       /\ srv_connects' = srv_connects
       /\ srv_stream_seqs' = srv_stream_seqs
       /\ sock' = sock
       /\ rd' = rd
       /\ srv_task'.pc # "ok"]_vars

\* A CLOSED frame naming stream_id is in the chat.
ClosedEmitted(stream_id) ==
  \E i \in 1..Len(srv_out) :
    srv_out[i][1] = "CLOSED" /\ stream_id \in {srv_out[i][k] : k \in 2..Len(srv_out[i])}

\* C10 (server CLOSE handling): once the server has handled CLOSE for a stream
\* of its registry, the socket is closed, the stream has left the registry and
\* the sequence table, and, by the time the stream's reader task has ended, a
\* CLOSED frame for the stream has been emitted.
C10_CloseEmitsClosed ==
  \A s \in DOMAIN sock :
    sock[s].closed =>
      /\ s \notin DOMAIN srv_connects
      /\ s \notin DOMAIN srv_stream_seqs
      /\ rd[s].pc \in {"done", "failed"} => ClosedEmitted(s)

\* ---------------------------------------------------------------- the tunnel

\* Chunks a caller may pass to write().
WriteData == {DataOf(0), DataOf(1)}

\* Both programs and the chat between them.  The chat returns to a peer's
\* poll any text the other peer posted, in any order and any number of times;
\* it loses and mangles nothing, no send_message and no socket write fails.
\* The client opens one stream, writes, flushes and finally closes; the origin
\* returns chunks and then closes.  CONNECT is returned until a socket exists.
InitTunnel == Start("both")

TunnelSrvPoll ==
  \E i \in 1..Len(cli_out) :
    /\ cli_out[i][1] = "CONNECT" => DOMAIN sock = {}
    /\ SrvPoll(<<cli_out[i]>>, SomeId)
    /\ delivered' = delivered \cup {cli_out[i]}
    /\ UNCHANGED handed

TunnelCliPoll ==
  \E i \in 1..Len(srv_out) :
    /\ CliPoll(<<srv_out[i]>>, SomeId)
    /\ delivered' = delivered \cup {srv_out[i]}
    /\ UNCHANGED handed

\* The holder of write buffer o has not called close() yet.
Open(o) == o \in 1..Len(objs) /\ ~objs[o].fin

NextTunnel ==
  \/ CliOpen("r1")
  \/ CliOpenPosted("r1")
  \/ CliOpenReturn("r1")
  \/ TunnelSrvPoll
  \/ SrvConnect
  \/ SrvOkPosted
  \/ SrvSend
  \/ SrvDrained
  \/ SrvClose
  \/ \E stream_id \in StreamIds, data \in OriginData : RdData(stream_id, data)
  \/ \E stream_id \in StreamIds : RdEof(stream_id)
  \/ \E stream_id \in StreamIds : RdPosted(stream_id)
  \/ TunnelCliPoll
  \/ CliHandleOk
  \/ CliHandleRecv
  \/ CliNoMatch
  \/ \E o \in 1..MaxObjs, data \in WriteData : Open(o) /\ WbWrite(o, data)
  \/ \E o \in 1..MaxObjs : Open(o) /\ WbFlush(o)
  \/ \E o \in 1..MaxObjs : Open(o) /\ WbClose(o)
  \/ \E o \in 1..MaxObjs : WbPosted(o)

SpecTunnel == InitTunnel /\ [][NextTunnel]_vars

\* Every text in out was returned by a poll, and the poll task that received
\* them is parked with nothing left to dispatch.
AllDelivered(out) == \A i \in 1..Len(out) : out[i] \in delivered
SrvIdle == srv_task.pc = "loop" /\ srv_batch = <<>>
CliIdle == cli_batch = <<>>

\* The write buffer of stream s was closed by its holder and close() returned.
ClientDone(s) ==
  \E o \in 1..Len(objs) : objs[o].sid = s /\ objs[o].fin /\ objs[o].pc = "idle"

\* C3 (round trip, client to server): the bytes written to the server's socket
\* of a stream are at every moment a prefix of the bytes written to the
\* stream's client write buffer; and once the client's close() has returned,
\* every frame the client emitted has been returned by a poll at least once
\* (in any order) and the server has handled them all, the two are equal.
C3_ClientToServer ==
  \A s \in DOMAIN sock : \A o \in 1..Len(objs) :
    objs[o].sid = s =>
      /\ IsPrefix(Flatten(sock[s].written), objs[o].wrote)
      /\ (ClientDone(s) /\ AllDelivered(cli_out) /\ SrvIdle)
           => Flatten(sock[s].written) = objs[o].wrote

\* The bytes written so far to the client's read pipe of stream s.
PipeBytes(s) ==
  IF \E o \in 1..Len(objs) : objs[o].sid = s
  THEN Flatten(objs[CHOOSE o \in 1..Len(objs) : objs[o].sid = s].queue)
  ELSE <<>>

\* C4 (round trip, origin to client): the bytes written to the client's read
\* pipe of a stream are at every moment a prefix of the bytes the server's
\* reader got from the origin; and once the reader has ended after the origin's
\* end of file, every frame the server emitted has been returned by a poll at
\* least once (in any order) and the client has handled them all, the two are
\* equal.
C4_OriginToClient ==
  \A s \in DOMAIN sock :
    /\ IsPrefix(PipeBytes(s), Flatten(sock[s].got))
    /\ (rd[s].pc = "done" /\ SrvIdle /\ AllDelivered(srv_out) /\ CliIdle)
         => PipeBytes(s) = Flatten(sock[s].got)

\* The client is about to handle a CLOSED frame the server emitted, and the
\* frame's request_id is in the client registry.
ClosedAtHand ==
  /\ cli_batch # <<>>
  /\ Head(cli_batch)[1] = "CLOSED"
  /\ Head(cli_batch) \in Range(srv_out)
  /\ HasRequest(Head(cli_batch)[2])

\* C9 (client CLOSED handling): handling a CLOSED frame the server emitted,
\* whose request_id is in the client registry, closes the stream's pipes,
\* removes the registry entry of the request_id and drops the stream's
\* sequence state.
C9_ClosedHandled ==
  [][(ClosedAtHand /\ cli_batch' # cli_batch) =>
       LET request_id == Head(cli_batch)[2]
           c == FirstWith(WithRequest(request_id))
       IN  /\ \A i \in 1..Len(cli_connects') : cli_connects'[i].req # request_id
           /\ c.sid \notin DOMAIN cli_stream_seqs'
           /\ objs'[c.o].closed]_vars

\* ------------------------------------------------------- the client alone

\* A request_id another client of the same chat issued.
ForeignRequest == "r2"

\* What the chat may hold for the client: OK for the request whose CONNECT it
\* posted (until it is registered), the OK answering another client's request,
\* CLOSED for the request it waits for, the first data frame of a registered stream, CLOSED in
\* the form the client parses and in the form the server writes.
ClientTexts ==
  {OkText(r, "s1") :
     r \in {x \in DOMAIN cli_open : cli_open[x].pc = "wait" /\ objs = <<>>}}
  \cup {OkText(ForeignRequest, "s2")}
  \cup {<<"CLOSED", r>> :
          r \in {x \in DOMAIN cli_open : cli_open[x].pc = "wait" /\ objs = <<>>}}
  \cup {RecvText(cli_connects[i].sid, 0, B64Encode(DataOf(0))) :
          i \in 1..Len(cli_connects)}
  \cup {<<"CLOSED", cli_connects[i].req>> : i \in 1..Len(cli_connects)}
  \cup {ClosedText(cli_connects[i].req, cli_connects[i].sid) :
          i \in 1..Len(cli_connects)}

ClientPoll ==
  \E t \in ClientTexts :
    /\ t \notin delivered
    /\ CliPoll(<<t>>, SomeId)
    /\ delivered' = delivered \cup {t}
    /\ UNCHANGED handed

InitClient == Start("client")

\* Any send_message of the client may fail.
NextClient ==
  \/ CliOpen("r1")
  \/ CliOpenPosted("r1")
  \/ CliOpenFailed("r1")
  \/ CliOpenSleep("r1")
  \/ CliOpenReturn("r1")
  \/ ClientPoll
  \/ CliHandleOk
  \/ CliHandleRecv
  \/ CliHandleClose
  \/ CliNoMatch
  \/ \E o \in 1..MaxObjs, data \in WriteData : WbWrite(o, data)
  \/ \E o \in 1..MaxObjs : WbFlush(o)
  \/ \E o \in 1..MaxObjs : WbClose(o)
  \/ \E o \in 1..MaxObjs : WbPosted(o)
  \/ \E o \in 1..MaxObjs : WbPostFailed(o)

SpecClient == InitClient /\ [][NextClient]_vars

\* The seq numbers of the data frames of stream_id in out, in emission order.
RECURSIVE SeqsOf(_, _)
SeqsOf(out, stream_id) ==
  IF out = <<>> THEN <<>>
  ELSE (IF Head(out)[1] \in {"SEND", "RECV"} /\ Head(out)[2] = stream_id
        THEN <<Head(out)[3]>> ELSE <<>>) \o SeqsOf(Tail(out), stream_id)

Ascending(q) == \A i \in 1..Len(q) : q[i] = i - 1

\* C5 (sequence monotonicity): for every stream, the seq values of the SEND
\* frames the client emitted, and of the RECV frames the server emitted, are
\* 0, 1, 2, ... in emission order, with no gap and no repeat, also after a
\* send_message for a data frame failed.
C5_SeqGapFree ==
  \A s \in StreamIds : Ascending(SeqsOf(cli_out, s)) /\ Ascending(SeqsOf(srv_out, s))

\* ------------------------------------------------------------ frame sizes

\* n bytes.
Blob(n) == [i \in 1..n |-> 65]

\* Sizes of the chunks passed to write(): one byte, and what one read of the
\* copier returns at most.
WriteSizes == {1, CopySize}

\* Either program alone, its stream being set up by the chat; the client's
\* write buffer is written, flushed and closed, the server's reader gets full
\* chunks from the origin.  No send_message fails.
InitFrame == \E p \in {"server", "client"} : Start(p)

FramePoll ==
  \/ /\ DOMAIN sock = {}
     /\ SrvPoll(<<ConnectText("r1", Host, Port)>>, SomeId)
     /\ UNCHANGED env
  \/ /\ cli_connects = <<>>
     /\ "r1" \in DOMAIN cli_open /\ cli_open["r1"].pc = "wait"
     /\ CliPoll(<<OkText("r1", "s1")>>, SomeId)
     /\ UNCHANGED env

NextFrame ==
  \/ FramePoll
  \/ SrvConnect
  \/ SrvOkPosted
  \/ \E stream_id \in StreamIds : RdData(stream_id, Blob(ReadSize))
  \/ \E stream_id \in StreamIds : RdEof(stream_id)
  \/ \E stream_id \in StreamIds : RdPosted(stream_id)
  \/ CliOpen("r1")
  \/ CliOpenPosted("r1")
  \/ CliOpenReturn("r1")
  \/ CliHandleOk
  \/ \E o \in 1..MaxObjs, n \in WriteSizes : WbWrite(o, Blob(n))
  \/ \E o \in 1..MaxObjs : WbFlush(o)
  \/ \E o \in 1..MaxObjs : WbClose(o)
  \/ \E o \in 1..MaxObjs : WbPosted(o)

SpecFrame == InitFrame /\ [][NextFrame]_vars

\* C6 (framing bound): every frame text either peer emitted is at most 4096
\* bytes long, whatever the sizes of the writes to the client write buffer
\* (a 4096-byte write followed by flush included) and of the chunks the
\* server's reader got.
C6_FrameBound ==
  /\ \A i \in 1..Len(cli_out) : TextLen(cli_out[i]) <= FrameLimit
  /\ \A i \in 1..Len(srv_out) : TextLen(srv_out[i]) <= FrameLimit

\* ------------------------------------------------------- reader teardown

\* The step in which the reader of stream s observes end of file: it leaves
\* read.read without having got a chunk.
EofStep(s) ==
  /\ s \in DOMAIN rd /\ rd[s].pc = "read"
  /\ rd'[s].pc \in {"send_closed", "done", "failed"}
  /\ sock'[s].got = sock[s].got

\* C11 (server reader teardown): when a stream's reader observes end of file
\* on the origin socket, in any interleaving with the poll task's handlers,
\* the socket is closed, the stream is in neither the registry nor the
\* sequence table afterwards, and the reader goes on to send the stream's
\* CLOSED frame instead of raising.
C11_ReaderTeardown ==
  [][\A s \in StreamIds :
       EofStep(s) =>
         /\ sock'[s].closed
         /\ s \notin DOMAIN srv_connects'
         /\ s \notin DOMAIN srv_stream_seqs'
         /\ rd'[s].pc = "send_closed"
         /\ rd'[s].frame[1] = "CLOSED"]_vars

\* ------------------------------------------------ frames for somebody else

\* The client is about to handle an OK whose request_id no open_connection of
\* this client issued.
ForeignOkAtHand ==
  /\ cli_batch # <<>>
  /\ MatchOk(Head(cli_batch))
  /\ Head(cli_batch)[2] \notin DOMAIN cli_open

\* C12 (OK for a foreign request): handling an OK whose request_id this client
\* never issued allocates no pipes and leaves the registry and the sequence
\* table unchanged.
C12_ForeignOkIgnored ==
  [][ForeignOkAtHand =>
       /\ cli_connects' = cli_connects
       /\ cli_stream_seqs' = cli_stream_seqs
       /\ objs' = objs]_vars

\* The poll task is about to dispatch an update that carries its frame as
\* channel_post.
PostAtHand == SrvDispatching /\ Head(srv_batch)[1] = "channel_post"

\* C13 (channel posts): an update that carries a frame as channel_post is
\* dispatched to the handlers as the same frame carried as message would be:
\* a CLOSE for a registered stream closes its socket and removes the stream,
\* a SEND carrying the expected seq of a registered stream is written to the
\* socket, a CONNECT is dialled (the handler sends OK or raises).
C13_ChannelPostDispatched ==
  [][PostAtHand =>
       LET t == Tail(Head(srv_batch))
       IN  /\ (MatchClose(t) /\ t[2] \in DOMAIN srv_connects)
                => (sock'[t[2]].closed /\ t[2] \notin DOMAIN srv_connects')
           /\ (MatchSend(t) /\ B64Decode(t[4]).ok /\ t[2] \in DOMAIN srv_connects
                 /\ t[2] \in DOMAIN srv_stream_seqs
                 /\ t[3] = srv_stream_seqs[t[2]].recv_seq)
                => srv_task'.pc = "drain"
           /\ (MatchConnect(t) /\ ~AlreadyConnected(t[2]))
                => (srv_task'.pc = "ok" \/ srv_batch' = <<>>)]_vars

\* ---------------------------------------------------------- the poll loops

\* The update ids a poll asked with the offset of last_id l may return: with
\* no offset any, otherwise those from the offset on.
PollIds(l) == {m \in 0..MaxUpdateId : Offset(l) = None \/ m >= Offset(l)}

\* Either program alone, polling: a poll fails or returns one update, whose
\* handler may raise (mangled payload, failed dial, failed send_message); the
\* update may be a data frame for a stream nobody registered (scenario
\* "SEND zzz 0 AA==").
InitPoll == \E p \in {"server", "client"} : Start(p)

PollServer ==
  \E t \in ServerTexts \cup {SendText(UnknownId, 0, B64Encode(<<0>>))},
     m \in PollIds(last_id.server) :
    /\ t[1] = "CONNECT" => DOMAIN sock # StreamIds
    /\ SrvPoll(<<t>>, m)
    /\ UNCHANGED env

PollClient ==
  \E t \in ClientTexts
           \cup {RecvText(cli_connects[i].sid, 0, Mangled) : i \in 1..Len(cli_connects)}
           \cup {RecvText(UnknownId, 0, B64Encode(<<0>>))},
     m \in PollIds(last_id.client) :
    /\ (MatchOk(t) /\ ~HasRequest(t[2])) => Len(objs) < MaxObjs
    /\ CliPoll(<<t>>, m)
    /\ UNCHANGED env

NextPoll ==
  \/ PollServer
  \/ SrvPollFailed
  \/ SrvSkip
  \/ SrvConnect
  \/ SrvOkPosted
  \/ SrvOkFailed
  \/ SrvSend
  \/ SrvDrained
  \/ SrvDrainFailed
  \/ SrvClose
  \/ PollClient
  \/ CliPollFailed
  \/ CliHandleOk
  \/ CliHandleRecv
  \/ CliHandleClose
  \/ CliNoMatch

SpecPoll == InitPoll /\ [][NextPoll]_vars

\* The step in which a poll of the server, of the client, returns updates.
SrvPolled == srv_batch = <<>> /\ srv_batch' # <<>>
CliPolled == cli_batch = <<>> /\ cli_batch' # <<>>

\* C14 (poll offset): on both peers, after a poll that returned updates, with
\* any update_id values >= 0, the offset the next poll passes is
\* max(update_id) + 1; and nothing else, a failed poll in particular, changes
\* the offset the next poll passes.
C14_PollOffset ==
  [][/\ SrvPolled => Offset(last_id'.server) = last_id'.server + 1
     /\ CliPolled => Offset(last_id'.client) = last_id'.client + 1
     /\ last_id'.server # last_id.server => SrvPolled
     /\ last_id'.client # last_id.client => CliPolled]_vars

\* What the poll task of the server does between two polls: it dispatches
\* an update to its handler, or what the handler awaits completes or raises.
SrvHandling ==
  \/ SrvSkip
  \/ SrvConnect
  \/ SrvOkPosted
  \/ SrvOkFailed
  \/ SrvSend
  \/ SrvDrained
  \/ SrvDrainFailed
  \/ SrvClose

\* The same of the client, whose handlers await nothing that suspends.
CliHandling ==
  \/ CliHandleOk
  \/ CliHandleRecv
  \/ CliHandleClose
  \/ CliNoMatch

\* The event loop runs a task that is ready, and every awaited call returns or
\* raises.
FairPoll == SpecPoll /\ WF_vars(SrvHandling) /\ WF_vars(CliHandling)

\* C15 (event-loop survival): on either peer, whatever a poll or a handler
\* raised, the poll loop is again and again back at its poll (sleeping, then
\* calling get_updates): no error ends it.
C15_LoopSurvives ==
  /\ []<>(peer = "server" => SrvIdle)
  /\ []<>(peer = "client" => CliIdle)

\* A write.drain() raised inside the SEND handler, and the server's loop is
\* at its poll again.
C15_Witness ==
  /\ peer = "server"
  /\ SrvIdle
  /\ \E s \in DOMAIN sock : sock[s].failed

\* --------------------------------------------------------- the read pipe

\* Sizes passed to read(): everything, less than a chunk, more than all.
ReadSizes == {Everything, 1, CopySize}

\* The client alone with one stream; the chat returns the stream's OK and then
\* its data frames in order; the holder of the pipe reads and closes it.
InitPipe == Start("client")

PipePoll ==
  \E t \in {OkText(r, "s1") :
              r \in {x \in DOMAIN cli_open : cli_open[x].pc = "wait" /\ objs = <<>>}}
           \cup {RecvText(x, cli_stream_seqs[x].recv_seq,
                          B64Encode(DataOf(cli_stream_seqs[x].recv_seq))) :
                   x \in {y \in DOMAIN cli_stream_seqs :
                            cli_stream_seqs[y].recv_seq < MaxSeq}} :
    /\ CliPoll(<<t>>, SomeId)
    /\ UNCHANGED env

NextPipe ==
  \/ CliOpen("r1")
  \/ CliOpenPosted("r1")
  \/ CliOpenReturn("r1")
  \/ PipePoll
  \/ CliHandleOk
  \/ CliHandleRecv
  \/ \E o \in 1..MaxObjs, size \in ReadSizes : RbRead(o, size)
  \/ \E o \in 1..MaxObjs : RbClose(o)

SpecPipe == InitPipe /\ [][NextPipe]_vars

\* The bytes written to the pipe p and not returned by a read yet.
Unread(p) == p.rbuf \o Flatten(p.queue)

\* C16 (virtual pipe close): once an AsyncBytesIO pipe is closed, a write adds
\* nothing to it (it fails), no byte written before the close is lost, and a
\* read returns bytes written before the close as long as some are unread.
C16_PipeClose ==
  [][\A o \in 1..Len(objs) :
       objs[o].closed =>
         /\ objs'[o].out \o Unread(objs'[o]) = objs[o].out \o Unread(objs[o])
         /\ (objs'[o].reads # objs[o].reads /\ Unread(objs[o]) # <<>>)
              => objs'[o].out # objs[o].out]_vars

\* ------------------------------------------------- waiting for the stream

\* open_connection waits for request r, no entry for r is in the registry, and
\* the client has handled a CLOSED for r.
ClosedWhileWaiting(r) ==
  /\ r \in DOMAIN cli_open /\ cli_open[r].pc = "wait"
  /\ ~HasRequest(r)
  /\ <<"CLOSED", r>> \in delivered
  /\ CliIdle

\* C17 (open_stream wait): once a CLOSED for its request_id has been handled
\* while the registry has no entry for it, the next turn of open_connection's
\* wait ends the wait: it does not go back to sleep.
C17_WaitEndsOnClosed ==
  [][\A r \in DOMAIN cli_open :
       (ClosedWhileWaiting(r) /\ cli_open'[r] # cli_open[r])
         => cli_open'[r].pc # "wait"]_vars

\* ---------------------------------------------------------- unknown streams

\* The peer is about to handle a data frame whose stream is not in its
\* registry.
UnknownSendAtHand ==
  /\ SrvDispatching
  /\ MatchSend(Head(srv_batch))
  /\ Head(srv_batch)[2] \notin DOMAIN srv_connects
UnknownRecvAtHand ==
  /\ cli_batch # <<>>
  /\ MatchRecv(Head(cli_batch))
  /\ ~HasStream(Head(cli_batch)[2])

\* C18 (unknown stream): handling a SEND (server) or RECV (client) whose
\* stream_id is not in the peer's registry writes nothing to any sink, emits
\* no frame and leaves the registry and every stream's sequence state as they
\* were; the handler awaits nothing.
C18_UnknownStreamDropped ==
  [][/\ UnknownSendAtHand =>
          /\ UNCHANGED <<srv_connects, srv_stream_seqs, sock, rd, srv_out>>
          /\ srv_task' = Loop
     /\ UnknownRecvAtHand =>
          UNCHANGED <<cli_connects, cli_stream_seqs, objs, cli_out>>]_vars

\* Scenario "SEND zzz 0 AA==": the server, with a live stream registered, is
\* handed a data frame for a stream nobody registered.
C18_Witness ==
  /\ UnknownSendAtHand
  /\ Head(srv_batch) = SendText(UnknownId, 0, B64Encode(<<0>>))
  /\ DOMAIN srv_connects # {}

\* ------------------------------------------------------- order of emission

\* C19 (OK precedes data): every RECV frame in the chat is preceded there by
\* the OK frame of its stream, however the CONNECT handler and the reader
\* task it spawned interleave.
C19_OkBeforeData ==
  \A i \in 1..Len(srv_out) :
    srv_out[i][1] = "RECV" =>
      \E j \in 1..(i - 1) : MatchOk(srv_out[j]) /\ srv_out[j][3] = srv_out[i][2]

\* The frame a step of the client posts, <<>> when it posts none.
Posted == IF Len(cli_out') = Len(cli_out) + 1 THEN cli_out'[Len(cli_out')] ELSE <<>>

\* No data frame of a stream follows a CLOSE frame of that stream.
NoSendAfterClose ==
  \A i \in 1..Len(cli_out) : \A j \in (i + 1)..Len(cli_out) :
    MatchClose(cli_out[i]) => ~(MatchSend(cli_out[j]) /\ cli_out[j][2] = cli_out[i][2])

\* A step of a close() of write buffer o: the flush it began posts one data
\* frame holding the whole buffer and goes on to the CLOSE frame; the CLOSE
\* frame is posted from inside close() with nothing left in the buffer.
CloseSteps(o) ==
  LET s == objs[o].sid
  IN  /\ (objs[o].pc = "flush" /\ objs[o].then = "close" /\ Posted # <<>>) =>
            /\ MatchSend(Posted) /\ Posted[2] = s
            /\ Posted[4] = B64Encode(objs[o].buffer)
            /\ objs[o].buffer # <<>>
            /\ objs'[o].pc = "close" /\ objs'[o].buffer = <<>>
            /\ objs'[o].frame = CloseText(s)
      /\ Posted = CloseText(s) =>
            /\ objs[o].pc = "close" /\ objs[o].fin
            /\ objs[o].buffer = <<>>

CliRegistered == {cli_connects[i].sid : i \in 1..Len(cli_connects)}

\* C21 (registry / sequence-state consistency): on each peer, in every state
\* seen at a suspension point, the stream_ids in connects are exactly the
\* stream_ids that have an entry in stream_seqs.
C21_RegistryMatchesSeqs ==
  /\ CliRegistered = DOMAIN cli_stream_seqs
  /\ DOMAIN srv_connects = DOMAIN srv_stream_seqs

\* ---------------------------------------------------------- half close

\* The frame CLOSE of write buffer o's stream is in the chat: a close() of o
\* ran to its end.
ClosePosted(o) == \E i \in 1..Len(cli_out) : cli_out[i] = CloseText(objs[o].sid)

\* What the server posts for the stream of request r1, and the chat returns
\* any number of times in any order: OK once CONNECT is in the chat, the data
\* frames of MaxChunks chunks and CLOSED once the client has the stream.
HalfTexts ==
  {OkText("r1", "s1") : x \in {i \in 1..Len(cli_out) : cli_out[i][1] = "CONNECT"}}
  \cup {RecvText(cli_connects[i].sid, q, B64Encode(DataOf(q))) :
          i \in 1..Len(cli_connects), q \in 0..(MaxChunks - 1)}
  \cup {ClosedText(cli_connects[i].req, cli_connects[i].sid) :
          i \in 1..Len(cli_connects)}

\* delivered keeps the texts a poll returned after CLOSE was posted.
HalfPoll ==
  \E t \in HalfTexts :
    /\ MatchOk(t) => Len(objs) < MaxObjs
    /\ CliPoll(<<t>>, SomeId)
    /\ delivered' = IF \E o \in 1..Len(objs) : ClosePosted(o)
                    THEN delivered \cup {t} ELSE delivered
    /\ UNCHANGED handed

\* The client alone with the frames of one stream; its write buffer is
\* written, flushed and closed, and any send_message may fail.
InitHalf == Start("client")

NextHalf ==
  \/ CliOpen("r1")
  \/ CliOpenPosted("r1")
  \/ CliOpenFailed("r1")
  \/ CliOpenSleep("r1")
  \/ CliOpenReturn("r1")
  \/ HalfPoll
  \/ CliHandleOk
  \/ CliHandleRecv
  \/ CliNoMatch
  \/ \E o \in 1..MaxObjs, data \in WriteData : WbWrite(o, data)
  \/ \E o \in 1..MaxObjs : WbFlush(o)
  \/ \E o \in 1..MaxObjs : WbClose(o)
  \/ \E o \in 1..MaxObjs : WbPosted(o)
  \/ \E o \in 1..MaxObjs : WbPostFailed(o)

SpecHalf == InitHalf /\ [][NextHalf]_vars

====
